---- MODULE Spec2Model ----
(***************************************************************************)
(* Feedback ingestion (POST /api/feedback), the email notification         *)
(* dispatcher (sendEmailWithFallback and its two provider adapters) and    *)
(* the diagnostic route that calls it (GET /api/test-email).               *)
(***************************************************************************)
EXTENDS Integers, Sequences, FiniteSets, TLC

(***************************************************************************)
(* Bounds                                                                  *)
(***************************************************************************)
\* number of ingestion requests a behaviour may contain
MaxReq == 2
\* number of test-email requests a behaviour may contain
MaxDispatch == 2
\* number of Feedback records the store holds when analytics is computed
MaxFeedback == 3

\* calls of generateFeedbackEmailSubject, and how far the clock runs (ms)
\* records in the store when a project is deleted during analytics
MaxDeletionFeedback == 2

\* runs of the migration script
MaxRuns == 2

MaxSubjects == 2
MaxClockMs == 2000

ReqIds == 1..MaxReq

(***************************************************************************)
(* JavaScript values that occur in a request body                          *)
(***************************************************************************)
Undefined == [t |-> "undefined", s |-> "", n |-> 0]
JSNull == [t |-> "null", s |-> "", n |-> 0]
Str(s) == [t |-> "string", s |-> s, n |-> 0]
Num(n) == [t |-> "number", s |-> "", n |-> n]

\* the operand test of `!message`, `a || b`
Falsy(v) ==
    \/ v.t \in {"undefined", "null"}
    \/ v.t = "string" /\ v.s = ""
    \/ v.t = "number" /\ v.n = 0

\* what request.json() resolves to (kind "invalid": the body is not JSON)
ObjectBody(name, email, message, rating) ==
    [kind |-> "object", name |-> name, email |-> email,
     message |-> message, rating |-> rating]
NullBody ==
    [kind |-> "null", name |-> Undefined, email |-> Undefined,
     message |-> Undefined, rating |-> Undefined]
InvalidBody ==
    [kind |-> "invalid", name |-> Undefined, email |-> Undefined,
     message |-> Undefined, rating |-> Undefined]
NoBody ==
    [kind |-> "none", name |-> Undefined, email |-> Undefined,
     message |-> Undefined, rating |-> Undefined]

Names == {Str("Ann")}
Emails == {Undefined}
Messages == {Undefined, Str(""), Str("hi")}
Ratings == {Undefined, Num(3), Num(6)}

Bodies ==
    {ObjectBody(n, e, m, g) : n \in Names, e \in Emails, m \in Messages, g \in Ratings}
        \cup {NullBody, InvalidBody}

(***************************************************************************)
(* Store: prisma.feedback                                                  *)
(***************************************************************************)
VARIABLES
    now,            \* the server clock, in days
    projects        \* the Project records of the store

\* a project reference that is null ("" stands for null: both are falsy)
NoProject == ""

NoFeedback ==
    [id |-> 0, name |-> Undefined, email |-> Undefined,
     message |-> Undefined, rating |-> Undefined,
     projectId |-> NoProject, createdAt |-> 0]

\* prisma.feedback.create({ data }): the record gets a server-assigned id and
\* timestamp; data names no project, so the reference is null
FeedbackCreate(fbs, data) ==
    [id |-> Len(fbs) + 1, name |-> data.name, email |-> data.email,
     message |-> data.message, rating |-> data.rating,
     projectId |-> NoProject, createdAt |-> now]

(***************************************************************************)
(* POST /api/feedback                                                      *)
(***************************************************************************)
NoResponse == [status |-> 0, error |-> "", feedback |-> NoFeedback]
JsonError(msg, status) == [status |-> status, error |-> msg, feedback |-> NoFeedback]
JsonFeedback(fb, status) == [status |-> status, error |-> "", feedback |-> fb]

\* `await request.json()` and the destructuring of line 63 complete
BodyReadable(b) == b.kind = "object"

\* variant: the test is `message === undefined`, an empty message passes
MessageMissing_UndefinedOnly(b) == b.message.t = "undefined"

\* `if (!message)`
MessageMissing(b) == Falsy(b.message)

\* variant: the rating is left out of the data
CreateData_DropRating(b) ==
    [name |-> b.name, email |-> b.email, message |-> b.message, rating |-> Undefined]

\* `data: { name, email, message, rating }`
CreateData(b) ==
    [name |-> b.name, email |-> b.email, message |-> b.message, rating |-> b.rating]

(***************************************************************************)
(* Email providers (lib/email)                                             *)
(***************************************************************************)
\* variant: the fallback is listed first
Providers_Reversed == <<"Resend", "Brevo">>

\* the providers array of sendEmailWithFallback, in its order
Providers == <<"Brevo", "Resend">>

\* what fetch() and the reading of its response can come to.  net: fetch
\* rejected; otherwise an HTTP response with a status, a text body (read when
\* the status is not 2xx) and a JSON body (parsable or not, null or an object
\* with the fields messageId and id, "" when the field is not there)
Reply(net, status, text, parsable, isNull, messageId, id) ==
    [net |-> net, status |-> status, text |-> text, parsable |-> parsable,
     isNull |-> isNull, messageId |-> messageId, id |-> id]

FetchOutcomes ==
    { Reply(TRUE, 0, "", FALSE, FALSE, "", ""),
      Reply(FALSE, 500, "oops", FALSE, FALSE, "", ""),
      Reply(FALSE, 201, "", TRUE, FALSE, "m-1", ""),
      Reply(FALSE, 200, "", TRUE, FALSE, "", "id-1"),
      Reply(FALSE, 200, "", TRUE, FALSE, "", ""),
      Reply(FALSE, 200, "", TRUE, TRUE, "", ""),
      Reply(FALSE, 200, "<html>", FALSE, FALSE, "", "") }

\* response.ok
ResponseOk(o) == o.status >= 200 /\ o.status <= 299

\* a || b on strings
OrElse(a, b) == IF a = "" THEN b ELSE a

\* what a provider's send comes to: a message id, or a thrown Error
Sent(messageId) == [ok |-> TRUE, messageId |-> messageId, message |-> ""]
Thrown(msg) == [ok |-> FALSE, messageId |-> "", message |-> msg]

\* sendEmailViaBrevo, from the credential check on
sendEmailViaBrevo(keySet, o) ==
    IF ~keySet THEN Thrown("BREVO_API_KEY environment variable is not set")
    ELSE IF o.net THEN Thrown("fetch failed")
    ELSE IF ~ResponseOk(o)
         THEN Thrown("Brevo API error: " \o ToString(o.status) \o " - " \o o.text)
    ELSE IF ~o.parsable THEN Thrown("Unexpected token in JSON")
    ELSE IF o.isNull THEN Thrown("Cannot read properties of null")
    ELSE Sent(OrElse(OrElse(o.messageId, o.id), "unknown"))

\* variant: the id is returned as it is, without the "unknown" default
sendEmailViaResend_NoDefault(keySet, o) ==
    IF ~keySet
    THEN Thrown("RESEND_API_KEY or RESEND_TOKEN environment variable is not set")
    ELSE IF o.net THEN Thrown("fetch failed")
    ELSE IF ~ResponseOk(o)
         THEN Thrown("Resend API error: " \o ToString(o.status) \o " - " \o o.text)
    ELSE IF ~o.parsable THEN Thrown("Unexpected token in JSON")
    ELSE IF o.isNull THEN Thrown("Cannot read properties of null")
    ELSE Sent(o.id)

\* sendEmailViaResend, from the credential check on
sendEmailViaResend(keySet, o) ==
    IF ~keySet
    THEN Thrown("RESEND_API_KEY or RESEND_TOKEN environment variable is not set")
    ELSE IF o.net THEN Thrown("fetch failed")
    ELSE IF ~ResponseOk(o)
         THEN Thrown("Resend API error: " \o ToString(o.status) \o " - " \o o.text)
    ELSE IF ~o.parsable THEN Thrown("Unexpected token in JSON")
    ELSE IF o.isNull THEN Thrown("Cannot read properties of null")
    ELSE Sent(OrElse(o.id, "unknown"))

\* a settled send: the provider, and what its send came to
Settled(p, reply) ==
    [provider |-> p, ok |-> reply.ok, messageId |-> reply.messageId, message |-> reply.message]

\* provider.send() of the provider named p
ProviderSend(p, keySet, o) ==
    IF p = "Brevo" THEN sendEmailViaBrevo(keySet, o) ELSE sendEmailViaResend(keySet, o)

\* the provider took the message for delivery: it answered 2xx
ProviderAccepted(o) == ~o.net /\ ResponseOk(o)

\* let lastError: Error | null
NoError == [isNull |-> TRUE, message |-> ""]
ErrorOf(msg) == [isNull |-> FALSE, message |-> msg]

\* EmailSendResult
NoResult == [pending |-> TRUE]
SuccessResult(p, messageId) == [success |-> TRUE, provider |-> p, messageId |-> messageId]
\* lastError?.message || "Unknown error"
FailureResult(le) ==
    [success |-> FALSE, error |-> IF le.isNull THEN "Unknown error"
                                  ELSE OrElse(le.message, "Unknown error")]

\* who calls the dispatcher: 0 is GET /api/test-email, r >= 1 is ingestion
\* request r
TestEmail == 0
Callers == 0..MaxReq

\* FeedbackEmailData
NoData == [feedbackId |-> "", message |-> Undefined, rating |-> Undefined]
TestData ==
    [feedbackId |-> "test",
     message |-> Str("This is a test email to verify email configuration."),
     rating |-> Num(5)]

(***************************************************************************)
(* Store queries of GET /api/business-insights                             *)
(***************************************************************************)
\* `where`: {} without a projectId parameter, { projectId } with one
InScope(f, projectId) == projectId = "" \/ f.projectId = projectId

\* prisma.feedback.count: the number of the records, given by their indices
Count(rows) == Cardinality(rows)

\* rating: { not: null }
Rated(f) == f.rating.t = "number"

RECURSIVE SumRatings(_, _)
SumRatings(fbs, idx) ==
    IF idx = {} THEN 0
    ELSE LET i == CHOOSE j \in idx : TRUE
         IN fbs[i].rating.n + SumRatings(fbs, idx \ {i})

\* prisma.feedback.aggregate with _avg and _count of rating: the average is
\* kept as the fraction sum / count, null when no record is rated
Aggregate(fbs, projectId) ==
    LET idx == {i \in 1..Len(fbs) : InScope(fbs[i], projectId) /\ Rated(fbs[i])}
    IN [avgIsNull |-> idx = {}, sum |-> SumRatings(fbs, idx), count |-> Cardinality(idx)]

\* ratingStats._avg.rating || 0, as a fraction
AverageOf(stats) ==
    IF stats.avgIsNull \/ stats.sum = 0 THEN [num |-> 0, den |-> 1]
    ELSE [num |-> stats.sum, den |-> stats.count]

\* variant: the average is cut to 2 decimal places
Round2_Truncate(q) == (100 * q.num) \div q.den

\* Math.round((averageRating + Number.EPSILON) * 100) / 100, in hundredths
Round2(q) == (200 * q.num + q.den) \div (2 * q.den)

\* variant: the bucket counts the ratings of at least `rating`
RatingCount_AtLeast(fbs, projectId, rating) ==
    Count({i \in 1..Len(fbs) : InScope(fbs[i], projectId) /\ Rated(fbs[i]) /\ fbs[i].rating.n >= rating})

\* prisma.feedback.count({ where: { ...where, rating } })
RatingCount(fbs, projectId, rating) ==
    Count({i \in 1..Len(fbs) : InScope(fbs[i], projectId) /\ Rated(fbs[i]) /\ fbs[i].rating.n = rating})

\* variant: the records without a project are left out of the groups
GroupBy_SkipUnassigned(fbs) ==
    {[projectId |-> p, count |-> Count({i \in 1..Len(fbs) : fbs[i].projectId = p})] :
        p \in {fbs[i].projectId : i \in 1..Len(fbs)} \ {NoProject}}

\* prisma.feedback.groupBy({ by: ["projectId"], _count: { id } })
GroupBy(fbs) ==
    {[projectId |-> p, count |-> Count({i \in 1..Len(fbs) : fbs[i].projectId = p})] :
        p \in {fbs[i].projectId : i \in 1..Len(fbs)}}

\* what findUnique resolves to when there is no such project
NullProject == [id |-> "", name |-> "", isActive |-> FALSE]

\* prisma.project.findUnique({ where: { id } })
FindUnique(ps, id) ==
    IF \E p \in ps : p.id = id THEN CHOOSE p \in ps : p.id = id ELSE NullProject

\* project?.name || "Unknown Project"
ProjectName(project) == OrElse(project.name, "Unknown Project")

\* an entry of feedbackByProject
ProjectEntry(projectId, projectName, count) ==
    [projectId |-> projectId, projectName |-> projectName, count |-> count]

\* variant: every project is counted, active or not
ActiveProjectCount_All(ps) == Cardinality(ps)

\* prisma.project.count({ where: { isActive: true } })
ActiveProjectCount(ps) == Cardinality({p \in ps : p.isActive})

\* now.getTime() - 7 * 24 * 60 * 60 * 1000, in days
SevenDaysAgo(t) == t - 7

\* variant: the 30 days are added
ThirtyDaysAgo_Ahead(t) == t + 30

\* now.getTime() - 30 * 24 * 60 * 60 * 1000, in days
ThirtyDaysAgo(t) == t - 30

\* variant: the lower bound of the window is exclusive
RecentCount_Strict(fbs, projectId, since) ==
    Count({i \in 1..Len(fbs) : InScope(fbs[i], projectId) /\ fbs[i].createdAt > since})

\* prisma.feedback.count({ where: { ...where, createdAt: { gte } } })
RecentCount(fbs, projectId, since) ==
    Count({i \in 1..Len(fbs) : InScope(fbs[i], projectId) /\ fbs[i].createdAt >= since})

\* the locals of GET: pc is the read it awaits; storeSize remembers how many
\* records the store held when the request arrived
NoLocals ==
    [pc |-> "idle", projectId |-> "", totalFeedback |-> 0,
     ratingStats |-> [avgIsNull |-> TRUE, sum |-> 0, count |-> 0],
     ratingDistribution |-> <<>>, projectStats |-> {}, feedbackByProject |-> {},
     now |-> 0, recent7Days |-> 0, recent30Days |-> 0, totalProjects |-> 0,
     failed |-> FALSE, storeSize |-> 0]

\* the responses of GET
NoInsights == [none |-> TRUE]
NoInsightsResponse == [status |-> 0, error |-> "", insights |-> NoInsights]

\* lines 180-191: the insights object, averageRating in hundredths
InsightsOf(l) ==
    [totalFeedback |-> l.totalFeedback,
     averageRating |-> Round2(AverageOf(l.ratingStats)),
     ratedFeedbackCount |-> l.ratingStats.count,
     ratingDistribution |-> l.ratingDistribution,
     feedbackByProject |-> l.feedbackByProject,
     recent7Days |-> l.recent7Days,
     recent30Days |-> l.recent30Days,
     totalProjects |-> l.totalProjects]

(***************************************************************************)
(* Store contents and requests analytics is computed for                   *)
(***************************************************************************)
\* the project, rating and creation day of the records of a store
Kind(projectId, rating, createdAt) ==
    [projectId |-> projectId, rating |-> rating, createdAt |-> createdAt]

FeedbackKinds ==
    << Kind(NoProject, Undefined, 10), Kind(NoProject, Num(2), 33), Kind(NoProject, Num(4), 10),
       Kind("p1", Undefined, 33), Kind("p1", Num(2), 10), Kind("p1", Num(4), 33),
       Kind("p2", Undefined, 10), Kind("p2", Num(2), 33), Kind("p2", Num(4), 10) >>

KindRecord(k, i) ==
    [id |-> i, name |-> Str("Ann"), email |-> Undefined, message |-> Str("hi"),
     rating |-> FeedbackKinds[k].rating, projectId |-> FeedbackKinds[k].projectId,
     createdAt |-> FeedbackKinds[k].createdAt]

\* the stores of up to MaxFeedback records, one for each multiset of kinds
InsightStores ==
    UNION { { [i \in 1..n |-> KindRecord(f[i], i)] :
                f \in {g \in [1..n -> 1..Len(FeedbackKinds)] :
                          \A i \in 1..n : \A j \in 1..n : i <= j => g[i] <= g[j]} } :
            n \in 0..MaxFeedback }

Project(id, name, isActive) == [id |-> id, name |-> name, isActive |-> isActive]

\* p1 is there, active or not; p2 is there or was deleted
ProjectTables ==
    { {Project("p1", "Alpha", a)} \cup t :
        a \in BOOLEAN, t \in {{}, {Project("p2", "Beta", TRUE)}} }

\* the days analytics is computed on
Nows == {40, 41}

\* searchParams.get("projectId"): "" when the parameter is not there
ScopeParams == {"", "p1", "p2"}

(***************************************************************************)
(* Strings as sequences of characters, and the subject line                *)
(***************************************************************************)
Digits == <<"0", "1", "2", "3", "4", "5", "6", "7", "8", "9">>

\* Number.prototype.toString() of a natural number
RECURSIVE DigitsOf(_)
DigitsOf(n) ==
    IF n < 10 THEN <<Digits[n + 1]>>
    ELSE Append(DigitsOf(n \div 10), Digits[(n % 10) + 1])

\* String.prototype.padStart(width, ch)
RECURSIVE PadStart(_, _, _)
PadStart(cs, width, ch) ==
    IF Len(cs) >= width THEN cs ELSE PadStart(<<ch>> \o cs, width, ch)

\* the string the characters spell
RECURSIVE Join(_)
Join(cs) == IF cs = <<>> THEN "" ELSE Head(cs) \o Join(Tail(cs))

\* Date.prototype.toISOString() of the instant ms after 2026-11-03T02:56:00Z
ToISOString(ms) ==
    <<"2", "0", "2", "6", "-", "1", "1", "-", "0", "3", "T", "0", "2", ":">>
        \o PadStart(DigitsOf(56 + (ms \div 60000)), 2, "0") \o <<":">>
        \o PadStart(DigitsOf((ms \div 1000) % 60), 2, "0") \o <<".">>
        \o PadStart(DigitsOf(ms % 1000), 3, "0") \o <<"Z">>

\* .replace(/[:.]/g, "-")
ReplaceColonDot(cs) == [i \in DOMAIN cs |-> IF cs[i] \in {":", "."} THEN "-" ELSE cs[i]]

\* .slice(0, -5)
SliceOffLast5(cs) == SubSeq(cs, 1, Len(cs) - 5)

\* Math.floor(Math.random() * 10000): some of the values 0..9999
RandomNums == {7, 42, 9999}

ProjectNames == {"Acme", "Beta"}

\* generateFeedbackEmailSubject(projectName) called at instant ms when
\* Math.random() gives rnd
generateFeedbackEmailSubject(projectName, ms, rnd) ==
    LET timestamp == SliceOffLast5(ReplaceColonDot(ToISOString(ms)))
        randomNum == PadStart(DigitsOf(rnd), 4, "0")
    IN "New Feedback: " \o projectName \o " [" \o Join(timestamp) \o "-"
           \o Join(randomNum) \o "]"

(***************************************************************************)
(* Email content: a body is the sequence of its pieces, where a piece is   *)
(* one character of a data field or one chunk of the template              *)
(***************************************************************************)
\* an optional string field: null, or the characters of the string
NullText == [isNull |-> TRUE, chars |-> <<>>]
Text(cs) == [isNull |-> FALSE, chars |-> cs]
FalsyText(o) == o.isNull \/ o.chars = <<>>

\* variant: the quote characters are left as they are
escapeHtml_NoQuotes(text) ==
    [i \in DOMAIN text |->
        CASE text[i] = "&" -> "&amp;"
          [] text[i] = "<" -> "&lt;"
          [] text[i] = ">" -> "&gt;"
          [] OTHER -> text[i]]

\* escapeHtml(text): each of & < > " ' is replaced by its entity
escapeHtml(text) ==
    [i \in DOMAIN text |->
        CASE text[i] = "&" -> "&amp;"
          [] text[i] = "<" -> "&lt;"
          [] text[i] = ">" -> "&gt;"
          [] text[i] = "\"" -> "&quot;"
          [] text[i] = "'" -> "&#039;"
          [] OTHER -> text[i]]

\* the glyphs U+2B50 and U+2606
FilledStar == "[filled star]"
EmptyStar == "[empty star]"

\* String.prototype.repeat(count), for a count that is not negative
Repeat(glyph, count) == [i \in 1..count |-> glyph]

\* what building a body comes to: not built, a RangeError, or the pieces
NotBuilt == [built |-> FALSE, threw |-> FALSE, pieces |-> <<>>]
Threw == [built |-> FALSE, threw |-> TRUE, pieces |-> <<>>]
Built(pieces) == [built |-> TRUE, threw |-> FALSE, pieces |-> pieces]

\* lines 264-266 and 227-229: the submitter, with the bracket characters
\* around the email the body asks for
SubmitterInfo(data, open, close) ==
    IF ~FalsyText(data.submitterName)
    THEN data.submitterName.chars
            \o (IF ~FalsyText(data.submitterEmail)
                THEN <<" ", open>> \o data.submitterEmail.chars \o <<close>>
                ELSE <<>>)
    ELSE IF ~FalsyText(data.submitterEmail) THEN data.submitterEmail.chars
         ELSE <<"Anonymous">>

\* toLocaleString of createdAt, the same instant in every email here
FormattedDate == <<"November 3, 2026 at 02.56 AM UTC">>

\* toLocaleString() of createdAt in the text body
LocaleDate == <<"11/3/2026, 2.56.00 AM">>

\* lines 258-263: ratingStars and ratingText of the HTML body
RatingStars(rating) ==
    IF ~Falsy(rating)
    THEN Repeat(FilledStar, rating.n) \o Repeat(EmptyStar, 5 - rating.n)
    ELSE <<"No rating provided">>

RatingCaption(rating) ==
    IF ~Falsy(rating) THEN DigitsOf(rating.n) \o <<" out of 5 stars">>
    ELSE <<"No rating provided">>

\* lines 327-345: the rating block of the template
RatingBlock(rating) ==
    IF ~Falsy(rating)
    THEN <<"<tr><td><strong>Rating</strong><span>">> \o RatingStars(rating)
            \o <<"</span><span>">> \o RatingCaption(rating) \o <<"</span></td></tr>">>
    ELSE <<>>

\* generateFeedbackEmailHTML(data); repeat() of a negative count is a RangeError
generateFeedbackEmailHTML(data) ==
    IF ~Falsy(data.rating) /\ (data.rating.n < 0 \/ 5 - data.rating.n < 0) THEN Threw
    ELSE Built(
        <<"<!DOCTYPE html><html><body><h1>New Feedback Received</h1>",
          "<strong>Project Name</strong><span>">>
        \o escapeHtml(data.projectName)
        \o <<"</span><strong>Project URL</strong><a href=\"">>
        \o escapeHtml(data.projectDomain) \o <<"\" style=\"color: #667eea;\">">>
        \o escapeHtml(data.projectDomain) \o <<"</a>">>
        \o RatingBlock(data.rating)
        \o <<"<strong>Submitted By</strong><span>">>
        \o escapeHtml(SubmitterInfo(data, "<", ">")) \o <<"</span>">>
        \o (IF ~FalsyText(data.submitterEmail)
            THEN <<"<a href=\"mailto:">> \o escapeHtml(data.submitterEmail.chars)
                    \o <<"\" style=\"color: #667eea;\">Reply</a>">>
            ELSE <<>>)
        \o <<"<strong>Feedback Message</strong><p>">>
        \o escapeHtml(data.message) \o <<"</p><span>Submitted: ">>
        \o escapeHtml(FormattedDate) \o <<"</span><span>Feedback ID: ">>
        \o escapeHtml(data.feedbackId) \o <<"</span>">>
        \o (IF ~FalsyText(data.dashboardUrl)
            THEN <<"<a href=\"">> \o escapeHtml(data.dashboardUrl.chars)
                    \o <<"\">View in Dashboard</a>">>
            ELSE <<>>)
        \o <<"<p>This is an automated notification from Feedback Widget.</p>",
             "</body></html>">>)

\* generateFeedbackEmailText(data), trimmed
generateFeedbackEmailText(data) ==
    Built(
        <<"New Feedback Received\n\nProject: ">> \o data.projectName
        \o <<"\nDomain: ">> \o data.projectDomain \o <<"\nRating: ">>
        \o (IF ~Falsy(data.rating)
            THEN DigitsOf(data.rating.n)
                    \o <<" ", IF data.rating.n = 1 THEN "star" ELSE "stars">>
            ELSE <<"No rating">>)
        \o <<"\n\nFrom: ">> \o SubmitterInfo(data, "(", ")")
        \o <<"\n\nMessage:\n">> \o data.message
        \o <<"\n\nSubmitted: ">> \o LocaleDate
        \o (IF ~FalsyText(data.dashboardUrl)
            THEN <<"\n\nView Details: ">> \o data.dashboardUrl.chars
            ELSE <<>>))

\* FeedbackEmailData
EmailData(projectName, projectDomain, name, email, message, rating, dashboardUrl) ==
    [projectName |-> projectName, projectDomain |-> projectDomain,
     feedbackId |-> <<"f", "b", "1">>, submitterName |-> name,
     submitterEmail |-> email, message |-> message, rating |-> rating,
     dashboardUrl |-> dashboardUrl]

NoEmailData == EmailData(<<>>, <<>>, NullText, NullText, <<>>, JSNull, NullText)

\* the strings a field can hold, character by character
Texts == { <<"a">>, <<"<", "s", ">">>, <<"\"", "&", "'">> }
OptionalTexts == {NullText, Text(<<>>)} \cup {Text(cs) : cs \in Texts}
EmailRatings == {JSNull, Num(0), Num(1), Num(3), Num(5), Num(6)}

(***************************************************************************)
(* POST /api/projects                                                      *)
(***************************************************************************)
\* a Project record of the store
ProjectRow(id, name, domain, isActive, apiKey) ==
    [id |-> id, name |-> name, domain |-> domain, isActive |-> isActive, apiKey |-> apiKey]

NoProjectRow == ProjectRow(0, "", "", FALSE, "")

\* randomBytes(16).toString("hex"): two of the 2^128 keys, so that a key can
\* come up twice
ApiKeys == {"0f0f", "a1a1"}

\* String.prototype.trim() on the strings that occur here
Trim(str) ==
    CASE str = " Shop " -> "Shop"
      [] str = "  " -> ""
      [] OTHER -> str

\* the store's unique constraint on Project.apiKey
ApiKeyFree(ps, apiKey) == \A p \in ps : p.apiKey # apiKey

\* what request.json() of a project creation resolves to
ProjectBody(name, domain, isActive) ==
    [kind |-> "object", name |-> name, domain |-> domain, isActive |-> isActive]
InvalidProjectBody ==
    [kind |-> "invalid", name |-> Undefined, domain |-> Undefined, isActive |-> Undefined]
NoProjectBody ==
    [kind |-> "none", name |-> Undefined, domain |-> Undefined, isActive |-> Undefined]

ProjectBodies ==
    {InvalidProjectBody}
        \cup {ProjectBody(name, domain, isActive) :
                name \in {Undefined, Str(" Shop "), Num(5)},
                domain \in {Str(""), Str("shop.io")},
                isActive \in {Undefined, Str("false")}}

\* the locals of POST: pc, body and the generated apiKey
NoProjectRequest == [pc |-> "idle", body |-> NoProjectBody, apiKey |-> "", taken |-> FALSE]

NoProjectResponse == [status |-> 0, error |-> "", project |-> NoProjectRow]
ProjectError(msg, status) == [status |-> status, error |-> msg, project |-> NoProjectRow]
ProjectCreatedResponse(project) == [status |-> 201, error |-> "", project |-> project]

\* lines 228-234: the data of the create; isActive is a flag in the body
ProjectData(b, apiKey, id) ==
    ProjectRow(id, Trim(b.name.s), Trim(b.domain.s),
               IF b.isActive = Undefined THEN TRUE ELSE b.isActive.s = "true",
               apiKey)

(***************************************************************************)
(* migrateToProjects (scripts/migrate-to-projects)                         *)
(***************************************************************************)
\* the script is not running; completed counts the runs that ended well
NoMigration ==
    [pc |-> "idle", runs |-> 0, completed |-> 0, defaultProject |-> NoProjectRow,
     apiKey |-> "", startFeedbacks |-> <<>>, startProjects |-> {}]

\* prisma.project.findFirst({ where: { name: "Default Project" } })
DefaultProjects(ps) == {p \in ps : p.name = "Default Project"}

\* the id the store gives a new project
FreshProjectId(ps) == CHOOSE id \in {"p3", "p4", "p5", "p6"} : \A p \in ps : p.id # id

\* lines 92-98: the data of the default project
DefaultProjectData(id, apiKey) ==
    ProjectRow(id, "Default Project", "https://localhost:3000", TRUE, apiKey)

\* prisma.feedback.updateMany({ where: { projectId: null }, data: { projectId } })
UpdateMany(fbs, projectId) ==
    [i \in DOMAIN fbs |->
        IF fbs[i].projectId = NoProject THEN [fbs[i] EXCEPT !.projectId = projectId]
        ELSE fbs[i]]

\* the project tables the script can meet
MigrationTables ==
    { {},
      {ProjectRow("p1", "Shop", "shop.io", TRUE, "0f0f")},
      {ProjectRow("p1", "Shop", "shop.io", TRUE, "0f0f"), DefaultProjectData("p2", "a1a1")} }

(***************************************************************************)
(* GET /api/feedback, as fetchFeedback calls it                            *)
(***************************************************************************)
\* fetchFeedback(projectId): "/api/feedback?projectId=..." for a projectId
\* that is not null, undefined or "", and "/api/feedback" otherwise
FetchFeedbackParam(projectId) == projectId

\* the orders findMany({ orderBy: { createdAt: "desc" } }) can return the
\* records in: newest first, records of the same instant in any order
NewestFirst(fbs) ==
    { [i \in 1..Len(fbs) |-> fbs[perm[i]]] :
        perm \in { q \in [1..Len(fbs) -> 1..Len(fbs)] :
                     /\ \A i \in 1..Len(fbs) : \A j \in 1..Len(fbs) : i # j => q[i] # q[j]
                     /\ \A i \in 1..Len(fbs) : \A j \in 1..Len(fbs) :
                           i < j => fbs[q[i]].createdAt >= fbs[q[j]].createdAt } }

NoListResponse == [status |-> 0, error |-> "", feedbacks |-> <<>>]

VARIABLES
    feedbacks,      \* the Feedback records of the store, in creation order
    pc,             \* pc[r]: where ingestion request r stands
    body,           \* body[r]: the body request r was sent with
    resp,           \* resp[r]: the response request r returned
    createCalls,    \* createCalls[r]: prisma.feedback.create calls made by r
    created,        \* created[r]: id of the record r's create returned, 0 if none
    storeError,     \* storeError[r]: the error r's create rejected with, "" if none
    invoked,        \* invoked[c]: sendFeedbackNotificationEmail calls made by c
    ddata,          \* ddata[c]: the FeedbackEmailData of c's latest call
    dpc,            \* dpc[c]: where c's sendEmailWithFallback call stands
    didx,           \* didx[c]: index of the provider the loop is at
    inflight,       \* inflight[c]: providers whose send is in flight
    attempts,       \* attempts[c]: providers whose send was invoked, in order
    settled,        \* settled[c]: what each invoked send came to, in order
    lastError,      \* lastError[c]: the local lastError
    dresult,        \* dresult[c]: the EmailSendResult returned
    accepted,       \* accepted[c]: providers that took the message
    tpc,            \* where the test-email request stands
    tresp,          \* the response of the test-email request
    ins,            \* the locals of the business-insights request
    iresp,          \* the response of the business-insights request
    clockMs,        \* the clock new Date() reads, in ms after 02:56:00
    subjects,       \* the subjects generateFeedbackEmailSubject returned
    edata,          \* the FeedbackEmailData the email content is built from
    ehtml,          \* what generateFeedbackEmailHTML came to
    etext,          \* what generateFeedbackEmailText came to
    preq,           \* preq[r]: the locals of project creation request r
    presp,          \* presp[r]: the response request r returned
    removed,        \* the projects deleted before analytics looked them up
    mig,            \* the migration script: its locals and what it started from
    lreq,           \* the feedback list request: its state and projectId parameter
    lresp           \* the response of the feedback list request

ingestVars == <<feedbacks, pc, body, resp, createCalls, created, storeError, now, projects>>

dispatchVars ==
    <<invoked, ddata, dpc, didx, inflight, attempts, settled, lastError, dresult, accepted>>

testVars == <<tpc, tresp>>

insightsVars == <<ins, iresp>>

subjectVars == <<clockMs, subjects>>

\* the state of the parts that are modelled on their own
contentVars == <<edata, ehtml, etext>>

projectVars == <<preq, presp>>

listVars == <<lreq, lresp>>

auxVars == <<subjectVars, contentVars, projectVars, removed, mig, listVars>>

\* the request state of POST /api/feedback
requestVars == <<pc, body, resp, createCalls, created, storeError>>

\* everything but the state of one part
coreVars == <<ingestVars, dispatchVars, testVars, insightsVars>>
besideSubject == <<coreVars, contentVars, projectVars, removed, mig, listVars>>
besideContent == <<coreVars, subjectVars, projectVars, removed, mig, listVars>>
besideProject ==
    <<feedbacks, now, requestVars, dispatchVars, testVars, insightsVars, subjectVars, contentVars,
      removed, mig, listVars>>

vars == <<now, projects, feedbacks, pc, body, resp, createCalls, created, storeError, invoked, ddata, dpc, didx,
          inflight, attempts, settled, lastError, dresult, accepted, tpc, tresp, ins, iresp,
          clockMs, subjects, edata, ehtml, etext, preq, presp,
          removed, mig, lreq, lresp>>

\* no ingestion request has arrived
RequestInit ==
    /\ pc = [r \in ReqIds |-> "idle"]
    /\ body = [r \in ReqIds |-> NoBody]
    /\ resp = [r \in ReqIds |-> NoResponse]
    /\ createCalls = [r \in ReqIds |-> 0]
    /\ created = [r \in ReqIds |-> 0]
    /\ storeError = [r \in ReqIds |-> ""]

IngestInit ==
    /\ feedbacks = <<>>
    /\ now = 40
    /\ projects = {}
    /\ RequestInit

DispatchInit ==
    /\ invoked = [c \in Callers |-> 0]
    /\ ddata = [c \in Callers |-> NoData]
    /\ dpc = [c \in Callers |-> "idle"]
    /\ didx = [c \in Callers |-> 1]
    /\ inflight = [c \in Callers |-> {}]
    /\ attempts = [c \in Callers |-> <<>>]
    /\ settled = [c \in Callers |-> <<>>]
    /\ lastError = [c \in Callers |-> NoError]
    /\ dresult = [c \in Callers |-> NoResult]
    /\ accepted = [c \in Callers |-> {}]

NoTestResponse == [status |-> 0, success |-> FALSE, message |-> "", result |-> NoResult]

TestInit ==
    /\ tpc = "idle"
    /\ tresp = NoTestResponse

InsightsIdle ==
    /\ ins = NoLocals
    /\ iresp = NoInsightsResponse

SubjectInit ==
    /\ clockMs = 0
    /\ subjects = <<>>

ContentInit ==
    /\ edata = NoEmailData
    /\ ehtml = NotBuilt
    /\ etext = NotBuilt

ProjectInit ==
    /\ preq = [r \in ReqIds |-> NoProjectRequest]
    /\ presp = [r \in ReqIds |-> NoProjectResponse]

ListInit ==
    /\ lreq = [pc |-> "idle", projectId |-> ""]
    /\ lresp = NoListResponse

AuxInit ==
    /\ SubjectInit /\ ContentInit /\ ProjectInit /\ ListInit
    /\ removed = {}
    /\ mig = NoMigration

Init == IngestInit /\ DispatchInit /\ TestInit /\ InsightsIdle /\ AuxInit

(***************************************************************************)
(* sendFeedbackNotificationEmail, sendEmailWithFallback                    *)
(***************************************************************************)
\* lines 465-481 and 169-180: the call of caller c enters the provider loop
sendFeedbackNotificationEmail(c, data) ==
    /\ invoked' = [invoked EXCEPT ![c] = @ + 1]
    /\ ddata' = [ddata EXCEPT ![c] = data]
    /\ dpc' = [dpc EXCEPT ![c] = "loop"]
    /\ didx' = [didx EXCEPT ![c] = 1]
    /\ inflight' = [inflight EXCEPT ![c] = {}]
    /\ attempts' = [attempts EXCEPT ![c] = <<>>]
    /\ settled' = [settled EXCEPT ![c] = <<>>]
    /\ lastError' = [lastError EXCEPT ![c] = NoError]
    /\ dresult' = [dresult EXCEPT ![c] = NoResult]
    /\ accepted' = [accepted EXCEPT ![c] = {}]

(***************************************************************************)
(* POST /api/feedback                                                      *)
(***************************************************************************)
\* FeedbackEmailData built from what a request submitted
DataOf(b) == [feedbackId |-> "new", message |-> b.message, rating |-> b.rating]

\* variant: the notification is started before the write has completed
POST_NotifyBeforeWrite(r, b) ==
    /\ pc[r] = "idle"
    /\ body' = [body EXCEPT ![r] = b]
    /\ IF ~BodyReadable(b)
       THEN /\ pc' = [pc EXCEPT ![r] = "threw"]
            /\ UNCHANGED <<resp, createCalls, dispatchVars>>
       ELSE IF MessageMissing(b)
       THEN /\ pc' = [pc EXCEPT ![r] = "done"]
            /\ resp' = [resp EXCEPT ![r] = JsonError("Message is required", 400)]
            /\ UNCHANGED <<createCalls, dispatchVars>>
       ELSE /\ pc' = [pc EXCEPT ![r] = "creating"]
            /\ createCalls' = [createCalls EXCEPT ![r] = @ + 1]
            /\ sendFeedbackNotificationEmail(r, DataOf(b))
            /\ UNCHANGED resp
    /\ UNCHANGED <<feedbacks, created, storeError, now, projects, testVars, insightsVars, auxVars>>

\* lines 60-77: read the body, validate, start the store write
POST(r, b) ==
    /\ pc[r] = "idle"
    /\ body' = [body EXCEPT ![r] = b]
    /\ IF ~BodyReadable(b)
       THEN /\ pc' = [pc EXCEPT ![r] = "threw"]
            /\ UNCHANGED <<resp, createCalls>>
       ELSE IF MessageMissing(b)
       THEN /\ pc' = [pc EXCEPT ![r] = "done"]
            /\ resp' = [resp EXCEPT ![r] = JsonError("Message is required", 400)]
            /\ UNCHANGED createCalls
       ELSE /\ pc' = [pc EXCEPT ![r] = "creating"]
            /\ createCalls' = [createCalls EXCEPT ![r] = @ + 1]
            /\ UNCHANGED resp
    /\ UNCHANGED <<feedbacks, created, storeError, now, projects, dispatchVars, testVars, insightsVars, auxVars>>

\* variant: the email is sent inside the try and awaited, so a provider
\* failure reaches the catch
POSTCreated_AwaitsEmail(r) ==
    /\ pc[r] = "creating"
    /\ LET fb == FeedbackCreate(feedbacks, CreateData(body[r]))
       IN /\ feedbacks' = Append(feedbacks, fb)
          /\ created' = [created EXCEPT ![r] = fb.id]
          /\ \E keySet \in BOOLEAN, o \in FetchOutcomes :
                resp' = [resp EXCEPT ![r] =
                            IF ProviderSend("Brevo", keySet, o).ok
                            THEN JsonFeedback(fb, 201)
                            ELSE JsonError("Failed to save feedback", 500)]
    /\ pc' = [pc EXCEPT ![r] = "done"]
    /\ UNCHANGED <<body, createCalls, storeError, now, projects, dispatchVars, testVars, insightsVars, auxVars>>

\* lines 75-78: the create resolves, the record is returned with 201
POSTCreated(r) ==
    /\ pc[r] = "creating"
    /\ LET fb == FeedbackCreate(feedbacks, CreateData(body[r]))
       IN /\ feedbacks' = Append(feedbacks, fb)
          /\ created' = [created EXCEPT ![r] = fb.id]
          /\ resp' = [resp EXCEPT ![r] = JsonFeedback(fb, 201)]
    /\ pc' = [pc EXCEPT ![r] = "done"]
    /\ UNCHANGED <<body, createCalls, storeError, now, projects, dispatchVars, testVars, insightsVars, auxVars>>

\* what a rejected prisma call rejects with
StoreErrors == {"Can't reach database server"}

\* variant: the catch calls create once more instead of answering
POSTCreateFailed_Retries(r) ==
    /\ pc[r] = "creating"
    /\ \E e \in StoreErrors : storeError' = [storeError EXCEPT ![r] = e]
    /\ createCalls' = [createCalls EXCEPT ![r] = @ + 1]
    /\ UNCHANGED <<feedbacks, pc, body, resp, created, now, projects, dispatchVars, testVars, insightsVars, auxVars>>

\* lines 79-84: the create rejects, the catch answers 500
POSTCreateFailed(r) ==
    /\ pc[r] = "creating"
    /\ \E e \in StoreErrors : storeError' = [storeError EXCEPT ![r] = e]
    /\ resp' = [resp EXCEPT ![r] = JsonError("Failed to save feedback", 500)]
    /\ pc' = [pc EXCEPT ![r] = "done"]
    /\ UNCHANGED <<feedbacks, body, createCalls, created, now, projects, dispatchVars, testVars, insightsVars, auxVars>>

(***************************************************************************)
(* sendEmailWithFallback: the provider loop                                *)
(***************************************************************************)
\* `for (const provider of providers)`: the index after i
NextProvider(i) == i + 1

\* variant: the catch keeps the first error instead of the last
CatchSendError_KeepFirst(c, msg) ==
    /\ lastError' = [lastError EXCEPT ![c] = IF @.isNull THEN ErrorOf(msg) ELSE @]
    /\ didx' = [didx EXCEPT ![c] = NextProvider(@)]
    /\ dpc' = [dpc EXCEPT ![c] = "loop"]
    /\ UNCHANGED dresult

\* variant: the send is not awaited inside the try, its rejection escapes
CatchSendError_Rethrow(c, msg) ==
    /\ lastError' = [lastError EXCEPT ![c] = ErrorOf(msg)]
    /\ dpc' = [dpc EXCEPT ![c] = "threw"]
    /\ UNCHANGED <<didx, dresult>>

\* lines 190-194: the catch block keeps the error and goes on
CatchSendError(c, msg) ==
    /\ lastError' = [lastError EXCEPT ![c] = ErrorOf(msg)]
    /\ didx' = [didx EXCEPT ![c] = NextProvider(@)]
    /\ dpc' = [dpc EXCEPT ![c] = "loop"]
    /\ UNCHANGED dresult

\* variant: the result is kept but the loop goes on to the next provider
ReturnSuccess_NoReturn(c, p, messageId) ==
    /\ dresult' = [dresult EXCEPT ![c] = SuccessResult(p, messageId)]
    /\ didx' = [didx EXCEPT ![c] = NextProvider(@)]
    /\ dpc' = [dpc EXCEPT ![c] = "loop"]
    /\ UNCHANGED lastError

\* lines 184-189: the send resolved, the loop returns
ReturnSuccess(c, p, messageId) ==
    /\ dresult' = [dresult EXCEPT ![c] = SuccessResult(p, messageId)]
    /\ dpc' = [dpc EXCEPT ![c] = "returned"]
    /\ UNCHANGED <<didx, lastError>>

\* line 184, up to the fetch of the provider: provider.send() is invoked; it
\* throws at once when its credential is missing, else its fetch is in flight
ProviderTry(c, keySet) ==
    /\ dpc[c] = "loop"
    /\ didx[c] <= Len(Providers)
    /\ LET p == Providers[didx[c]]
       IN /\ attempts' = [attempts EXCEPT ![c] = Append(@, p)]
          /\ IF keySet
             THEN /\ inflight' = [inflight EXCEPT ![c] = @ \cup {p}]
                  /\ dpc' = [dpc EXCEPT ![c] = "sending"]
                  /\ UNCHANGED <<didx, lastError, dresult, settled>>
             ELSE LET reply == ProviderSend(p, FALSE, CHOOSE o \in FetchOutcomes : TRUE)
                  IN /\ settled' = [settled EXCEPT ![c] = Append(@, Settled(p, reply))]
                     /\ CatchSendError(c, reply.message)
                     /\ UNCHANGED inflight
    /\ UNCHANGED <<invoked, ddata, accepted, ingestVars, testVars, insightsVars, auxVars>>

\* line 184, from the fetch on: the fetch settles with outcome o
ProviderSettle(c, o) ==
    /\ dpc[c] = "sending"
    /\ LET p == Providers[didx[c]]
           reply == ProviderSend(p, TRUE, o)
       IN /\ inflight' = [inflight EXCEPT ![c] = @ \ {p}]
          /\ settled' = [settled EXCEPT ![c] = Append(@, Settled(p, reply))]
          /\ accepted' = [accepted EXCEPT ![c] = IF ProviderAccepted(o) THEN @ \cup {p} ELSE @]
          /\ IF reply.ok
             THEN ReturnSuccess(c, p, reply.messageId)
             ELSE CatchSendError(c, reply.message)
    /\ UNCHANGED <<invoked, ddata, attempts, ingestVars, testVars, insightsVars, auxVars>>

\* lines 197-202: the loop ran out of providers
AllFailed(c) ==
    /\ dpc[c] = "loop"
    /\ didx[c] > Len(Providers)
    /\ dresult' = [dresult EXCEPT ![c] = FailureResult(lastError[c])]
    /\ dpc' = [dpc EXCEPT ![c] = "returned"]
    /\ UNCHANGED <<invoked, ddata, didx, inflight, attempts, settled, lastError,
                   accepted, ingestVars, testVars, insightsVars, auxVars>>

(***************************************************************************)
(* GET /api/business-insights: one action for each store read it awaits    *)
(***************************************************************************)
otherVars == <<ingestVars, dispatchVars, testVars, auxVars>>

\* lines 180-191: the 200 response with the insights built from the locals
InsightsOk(l) == [status |-> 200, error |-> "", insights |-> InsightsOf(l)]

\* lines 51-58: the request arrives, with or without a projectId parameter
InsightsGET(p) ==
    /\ ins.pc = "idle"
    /\ ins' = [NoLocals EXCEPT !.pc = "total", !.projectId = p,
                               !.storeSize = Len(feedbacks)]
    /\ iresp' = NoInsightsResponse
    /\ UNCHANGED otherVars

\* lines 61-63: totalFeedback
InsightsTotal ==
    /\ ins.pc = "total"
    /\ ins' = [ins EXCEPT !.pc = "avg",
                          !.totalFeedback = Count({i \in 1..Len(feedbacks) : InScope(feedbacks[i], ins.projectId)})]
    /\ UNCHANGED <<iresp, otherVars>>

\* lines 66-77: ratingStats
InsightsAvg ==
    /\ ins.pc = "avg"
    /\ ins' = [ins EXCEPT !.pc = "dist", !.ratingStats = Aggregate(feedbacks, ins.projectId)]
    /\ UNCHANGED <<iresp, otherVars>>

\* lines 83-93: the five counts, taken here in the order they are issued;
\* lines 102 and 134: the branch on projectId once the fifth is there
InsightsDist ==
    /\ ins.pc = "dist"
    /\ LET rating == Len(ins.ratingDistribution) + 1
           entry == [rating |-> rating, count |-> RatingCount(feedbacks, ins.projectId, rating)]
       IN ins' = [ins EXCEPT !.ratingDistribution = Append(@, entry),
                             !.pc = IF rating < 5 THEN "dist"
                                    ELSE IF ins.projectId = "" THEN "group" ELSE "project"]
    /\ UNCHANGED <<iresp, otherVars>>

\* line 148, reached when feedbackByProject is complete: now = new Date()
AfterProjects(l) == [l EXCEPT !.pc = "recent7", !.now = now]

\* lines 104-110: projectStats; with no group Promise.all resolves at once
InsightsGroup ==
    /\ ins.pc = "group"
    /\ LET stats == GroupBy(feedbacks)
           l == [ins EXCEPT !.projectStats = stats, !.pc = "names"]
       IN ins' = IF stats = {} THEN AfterProjects(l) ELSE l
    /\ UNCHANGED <<iresp, otherVars>>

\* variant: a group whose project is not found gets no entry
InsightsName_SkipsMissing(stat) ==
    /\ ins.pc = "names"
    /\ stat \in ins.projectStats
    /\ LET project == FindUnique(projects, stat.projectId)
           entry == IF stat.projectId # NoProject
                    THEN ProjectEntry(stat.projectId, ProjectName(project), stat.count)
                    ELSE ProjectEntry(NoProject, "No Project", stat.count)
           l == [ins EXCEPT !.projectStats = @ \ {stat},
                            !.feedbackByProject =
                                IF stat.projectId # NoProject /\ project = NullProject
                                THEN @ ELSE @ \cup {entry}]
       IN ins' = IF l.projectStats = {} THEN AfterProjects(l) ELSE l
    /\ UNCHANGED <<iresp, otherVars>>

\* lines 114-131: the entry of one group; the lookups settle in any order
InsightsName(stat) ==
    /\ ins.pc = "names"
    /\ stat \in ins.projectStats
    /\ LET entry == IF stat.projectId # NoProject
                    THEN ProjectEntry(stat.projectId,
                                      ProjectName(FindUnique(projects, stat.projectId)),
                                      stat.count)
                    ELSE ProjectEntry(NoProject, "No Project", stat.count)
           l == [ins EXCEPT !.projectStats = @ \ {stat},
                            !.feedbackByProject = @ \cup {entry}]
       IN ins' = IF l.projectStats = {} THEN AfterProjects(l) ELSE l
    /\ UNCHANGED <<iresp, otherVars>>

\* variant: a project that is not in the store gets no entry
InsightsProject_OnlyIfFound ==
    /\ ins.pc = "project"
    /\ LET project == FindUnique(projects, ins.projectId)
           entry == ProjectEntry(ins.projectId, ProjectName(project), ins.totalFeedback)
       IN ins' = AfterProjects([ins EXCEPT !.feedbackByProject =
                                   IF project = NullProject THEN {} ELSE {entry}])
    /\ UNCHANGED <<iresp, otherVars>>

\* lines 136-144: the single entry of the project the request names
InsightsProject ==
    /\ ins.pc = "project"
    /\ LET project == FindUnique(projects, ins.projectId)
           entry == ProjectEntry(ins.projectId, ProjectName(project), ins.totalFeedback)
       IN ins' = AfterProjects([ins EXCEPT !.feedbackByProject = {entry}])
    /\ UNCHANGED <<iresp, otherVars>>

\* lines 149, 152-159: recent7Days
InsightsRecent7 ==
    /\ ins.pc = "recent7"
    /\ ins' = [ins EXCEPT !.pc = "recent30",
                          !.recent7Days = RecentCount(feedbacks, ins.projectId, SevenDaysAgo(ins.now))]
    /\ UNCHANGED <<iresp, otherVars>>

\* lines 150, 161-168: recent30Days; lines 171-172 and 180-191: with a
\* projectId totalProjects is 1 and the response follows without a read
InsightsRecent30 ==
    /\ ins.pc = "recent30"
    /\ LET l == [ins EXCEPT !.recent30Days =
                        RecentCount(feedbacks, ins.projectId, ThirtyDaysAgo(ins.now))]
       IN IF ins.projectId # ""
          THEN LET m == [l EXCEPT !.totalProjects = 1, !.pc = "done"]
               IN ins' = m /\ iresp' = InsightsOk(m)
          ELSE ins' = [l EXCEPT !.pc = "projects"] /\ UNCHANGED iresp
    /\ UNCHANGED otherVars

\* lines 173-177 and 180-191: totalProjects and the response
InsightsProjects ==
    /\ ins.pc = "projects"
    /\ LET m == [ins EXCEPT !.totalProjects = ActiveProjectCount(projects), !.pc = "done"]
       IN ins' = m /\ iresp' = InsightsOk(m)
    /\ UNCHANGED otherVars

\* the reads the handler can be waiting for
Reads == {"total", "avg", "dist", "group", "names", "project", "recent7", "recent30", "projects"}

\* variant: the catch block answers with what was computed so far
InsightsReadFailed_Partial ==
    /\ ins.pc \in Reads
    /\ ins' = [ins EXCEPT !.pc = "done", !.failed = TRUE]
    /\ iresp' = [status |-> 500, error |-> "Failed to fetch business insights",
                 insights |-> InsightsOf(ins)]
    /\ UNCHANGED otherVars

\* lines 192-198: the read the handler waits for rejects
InsightsReadFailed ==
    /\ ins.pc \in Reads
    /\ ins' = [ins EXCEPT !.pc = "done", !.failed = TRUE]
    /\ iresp' = [status |-> 500, error |-> "Failed to fetch business insights",
                 insights |-> NoInsights]
    /\ UNCHANGED otherVars

(***************************************************************************)
(* Calls of generateFeedbackEmailSubject as time passes                    *)
(***************************************************************************)
\* the clock advances
Tick(d) ==
    /\ clockMs + d <= MaxClockMs
    /\ clockMs' = clockMs + d
    /\ UNCHANGED <<subjects, besideSubject>>

\* one call; the record keeps the argument and the instant of the call
GenerateSubject(projectName, rnd) ==
    /\ Len(subjects) < MaxSubjects
    /\ subjects' = Append(subjects,
                          [projectName |-> projectName, at |-> clockMs,
                           subject |-> generateFeedbackEmailSubject(projectName, clockMs, rnd)])
    /\ UNCHANGED <<clockMs, besideSubject>>

(***************************************************************************)
(* The content of one notification email                                   *)
(***************************************************************************)
\* lines 474-477 of sendFeedbackNotificationEmail: the HTML body, then the
\* text body unless building the HTML body threw
BuildContent(data) ==
    /\ edata = NoEmailData
    /\ ehtml = NotBuilt
    /\ edata' = data
    /\ ehtml' = generateFeedbackEmailHTML(data)
    /\ etext' = IF generateFeedbackEmailHTML(data).threw THEN NotBuilt
                ELSE generateFeedbackEmailText(data)
    /\ UNCHANGED besideContent

(***************************************************************************)
(* POST /api/projects                                                      *)
(***************************************************************************)
\* lines 209-225: the body is read and checked inside the try; a body that is
\* not JSON, or a name or domain without trim(), ends in the catch
ProjectPOST(r, b) ==
    /\ preq[r].pc = "idle"
    /\ IF b.kind = "invalid"
       THEN /\ preq' = [preq EXCEPT ![r] = [@ EXCEPT !.pc = "done", !.body = b]]
            /\ presp' = [presp EXCEPT ![r] = ProjectError("Failed to create project", 500)]
       ELSE IF Falsy(b.name) \/ Falsy(b.domain)
       THEN /\ preq' = [preq EXCEPT ![r] = [@ EXCEPT !.pc = "done", !.body = b]]
            /\ presp' = [presp EXCEPT ![r] = ProjectError("Name and domain are required", 400)]
       ELSE IF b.name.t # "string" \/ b.domain.t # "string"
       THEN /\ preq' = [preq EXCEPT ![r] = [@ EXCEPT !.pc = "done", !.body = b]]
            /\ presp' = [presp EXCEPT ![r] = ProjectError("Failed to create project", 500)]
       ELSE /\ \E apiKey \in ApiKeys :
                 preq' = [preq EXCEPT ![r] = [@ EXCEPT !.pc = "creating", !.body = b,
                                                        !.apiKey = apiKey]]
            /\ UNCHANGED presp
    /\ UNCHANGED <<projects, besideProject>>

\* lines 227-243: the store accepts the create
ProjectCreated(r) ==
    /\ preq[r].pc = "creating"
    /\ ApiKeyFree(projects, preq[r].apiKey)
    /\ LET project == ProjectData(preq[r].body, preq[r].apiKey, Cardinality(projects) + 1)
       IN /\ projects' = projects \cup {project}
          /\ presp' = [presp EXCEPT ![r] = ProjectCreatedResponse(project)]
    /\ preq' = [preq EXCEPT ![r] = [@ EXCEPT !.pc = "done"]]
    /\ UNCHANGED besideProject

\* variant: the catch block answers as if the project had been created
ProjectCreateRejected_Reports201(r) ==
    /\ preq[r].pc = "creating"
    /\ preq' = [preq EXCEPT ![r] = [@ EXCEPT !.pc = "done",
                                       !.taken = ~ApiKeyFree(projects, preq[r].apiKey)]]
    /\ presp' = [presp EXCEPT ![r] =
                    ProjectCreatedResponse(ProjectData(preq[r].body, preq[r].apiKey, 0))]
    /\ UNCHANGED <<projects, besideProject>>

\* lines 245-251: the store rejects the create, because the key is taken or
\* because the store fails, and the catch block answers
ProjectCreateRejected(r) ==
    /\ preq[r].pc = "creating"
    /\ preq' = [preq EXCEPT ![r] = [@ EXCEPT !.pc = "done",
                                       !.taken = ~ApiKeyFree(projects, preq[r].apiKey)]]
    /\ presp' = [presp EXCEPT ![r] = ProjectError("Failed to create project", 500)]
    /\ UNCHANGED <<projects, besideProject>>

(***************************************************************************)
(* A project is deleted while analytics is computed                        *)
(***************************************************************************)
\* the store deletes project q; the feedback keeps its reference. The
\* deletion is remembered when the request has not looked q up yet.
DeleteProject(q) ==
    /\ \E p \in projects : p.id = q
    /\ projects' = {p \in projects : p.id # q}
    /\ removed' = IF \E e \in ins.feedbackByProject : e.projectId = q
                  THEN removed
                  ELSE removed \cup {[id |-> q, at |-> ins.pc]}
    /\ UNCHANGED <<feedbacks, now, requestVars, dispatchVars, testVars, insightsVars,
                   subjectVars, contentVars, projectVars, mig, listVars>>

(***************************************************************************)
(* migrateToProjects: one action for each store call it awaits             *)
(***************************************************************************)
besideMigration ==
    <<now, requestVars, dispatchVars, testVars, insightsVars, subjectVars, contentVars,
      projectVars, removed, listVars>>

\* lines 148-151: the script is run; what it starts from is remembered
MigrateRun ==
    /\ mig.pc \in {"idle", "done", "failed"}
    /\ mig.runs < MaxRuns
    /\ mig' = [mig EXCEPT !.pc = "findDefault", !.runs = @ + 1,
                          !.defaultProject = NoProjectRow, !.apiKey = "",
                          !.startFeedbacks = feedbacks, !.startProjects = projects]
    /\ UNCHANGED <<feedbacks, projects, besideMigration>>

\* variant: the existing default project is not looked for
MigrateFindDefault_NeverFinds ==
    /\ mig.pc = "findDefault"
    /\ \E apiKey \in ApiKeys : mig' = [mig EXCEPT !.pc = "create", !.apiKey = apiKey]
    /\ UNCHANGED <<feedbacks, projects, besideMigration>>

\* lines 77-90, 96: findFirst of the default project; without one the key
\* of the project to create is generated
MigrateFindDefault ==
    /\ mig.pc = "findDefault"
    /\ IF DefaultProjects(projects) # {}
       THEN \E p \in DefaultProjects(projects) :
               mig' = [mig EXCEPT !.pc = "findUnassigned", !.defaultProject = p]
       ELSE \E apiKey \in ApiKeys : mig' = [mig EXCEPT !.pc = "create", !.apiKey = apiKey]
    /\ UNCHANGED <<feedbacks, projects, besideMigration>>

\* lines 92-100: the default project is created
MigrateCreate ==
    /\ mig.pc = "create"
    /\ ApiKeyFree(projects, mig.apiKey)
    /\ LET p == DefaultProjectData(FreshProjectId(projects), mig.apiKey)
       IN /\ projects' = projects \cup {p}
          /\ mig' = [mig EXCEPT !.pc = "findUnassigned", !.defaultProject = p]
    /\ UNCHANGED <<feedbacks, besideMigration>>

\* lines 106-115: findMany of the records without a project; with none the
\* script returns
MigrateFindUnassigned ==
    /\ mig.pc = "findUnassigned"
    /\ mig' = IF \A i \in 1..Len(feedbacks) : feedbacks[i].projectId # NoProject
              THEN [mig EXCEPT !.pc = "done", !.completed = @ + 1]
              ELSE [mig EXCEPT !.pc = "update"]
    /\ UNCHANGED <<feedbacks, projects, besideMigration>>

\* lines 121-128: updateMany
MigrateUpdate ==
    /\ mig.pc = "update"
    /\ feedbacks' = UpdateMany(feedbacks, mig.defaultProject.id)
    /\ mig' = [mig EXCEPT !.pc = "count"]
    /\ UNCHANGED <<projects, besideMigration>>

\* lines 134-143: the count of the summary; the script ends
MigrateCount ==
    /\ mig.pc = "count"
    /\ mig' = [mig EXCEPT !.pc = "done", !.completed = @ + 1]
    /\ UNCHANGED <<feedbacks, projects, besideMigration>>

\* lines 144-146: the store call the script waits for rejects
MigrateFailed ==
    /\ mig.pc \in {"findDefault", "create", "findUnassigned", "update", "count"}
    /\ mig' = [mig EXCEPT !.pc = "failed"]
    /\ UNCHANGED <<feedbacks, projects, besideMigration>>

(***************************************************************************)
(* GET /api/feedback                                                       *)
(***************************************************************************)
besideList ==
    <<coreVars, subjectVars, contentVars, projectVars, removed, mig>>

\* use-feedback.ts 25-31: the request is sent, with or without projectId
FeedbackGET(projectId) ==
    /\ lreq.pc = "idle"
    /\ lreq' = [pc |-> "findMany", projectId |-> FetchFeedbackParam(projectId)]
    /\ UNCHANGED <<lresp, besideList>>

\* lines 99-105: findMany resolves and the handler answers; the handler has
\* no request parameter and reads nothing of the URL
FeedbackGETFound ==
    /\ lreq.pc = "findMany"
    /\ \E list \in NewestFirst(feedbacks) :
          lresp' = [status |-> 200, error |-> "", feedbacks |-> list]
    /\ lreq' = [lreq EXCEPT !.pc = "done"]
    /\ UNCHANGED besideList

\* lines 106-111: findMany rejects
FeedbackGETFailed ==
    /\ lreq.pc = "findMany"
    /\ lresp' = [status |-> 500, error |-> "Failed to fetch feedbacks", feedbacks |-> <<>>]
    /\ lreq' = [lreq EXCEPT !.pc = "done"]
    /\ UNCHANGED besideList

(***************************************************************************)
(* GET /api/test-email                                                     *)
(***************************************************************************)
\* lines 20-44: the route calls the dispatcher with its fixed test data
TestEmailGET ==
    /\ tpc \in {"idle", "done"}
    /\ invoked[TestEmail] < MaxDispatch
    /\ sendFeedbackNotificationEmail(TestEmail, TestData)
    /\ tpc' = "awaiting"
    /\ tresp' = NoTestResponse
    /\ UNCHANGED <<ingestVars, insightsVars, auxVars>>

\* lines 46-68: the answer built from the result (environmentVariables, a
\* report of which variables are set, is left out), or the catch's 500
TestEmailRespond ==
    /\ tpc = "awaiting"
    /\ dpc[TestEmail] \in {"returned", "threw"}
    /\ tresp' = IF dpc[TestEmail] = "returned"
                THEN LET result == dresult[TestEmail]
                     IN [status |-> 200, success |-> result.success,
                         message |-> IF result.success
                                     THEN "Email sent successfully via " \o result.provider
                                     ELSE "Email sending failed: " \o result.error,
                         result |-> result]
                ELSE [status |-> 500, success |-> FALSE,
                      message |-> lastError[TestEmail].message, result |-> NoResult]
    /\ tpc' = "done"
    /\ UNCHANGED <<ingestVars, dispatchVars, insightsVars, auxVars>>

Next ==
    \/ \E r \in ReqIds, b \in Bodies : POST(r, b)
    \/ \E r \in ReqIds : POSTCreated(r)
    \/ \E r \in ReqIds : POSTCreateFailed(r)
    \/ TestEmailGET
    \/ \E c \in Callers, keySet \in BOOLEAN : ProviderTry(c, keySet)
    \/ \E c \in Callers, o \in FetchOutcomes : ProviderSettle(c, o)
    \/ \E c \in Callers : AllFailed(c)
    \/ TestEmailRespond

Spec == Init /\ [][Next]_vars

\* the ingestion endpoint alone
NextIngest ==
    \/ \E r \in ReqIds, b \in Bodies : POST(r, b)
    \/ \E r \in ReqIds : POSTCreated(r)
    \/ \E r \in ReqIds : POSTCreateFailed(r)

SpecIngest == Init /\ [][NextIngest]_vars

\* the dispatcher and the route that calls it alone
NextDispatch ==
    \/ TestEmailGET
    \/ \E c \in Callers, keySet \in BOOLEAN : ProviderTry(c, keySet)
    \/ \E c \in Callers, o \in FetchOutcomes : ProviderSettle(c, o)
    \/ \E c \in Callers : AllFailed(c)
    \/ TestEmailRespond

SpecDispatch == Init /\ [][NextDispatch]_vars

\* analytics over a store that already holds feedback and projects
InsightsInit ==
    /\ feedbacks \in InsightStores
    /\ projects \in ProjectTables
    /\ now \in Nows
    /\ RequestInit /\ DispatchInit /\ TestInit /\ InsightsIdle /\ AuxInit

NextInsights ==
    \/ \E p \in ScopeParams : InsightsGET(p)
    \/ InsightsTotal
    \/ InsightsAvg
    \/ InsightsDist
    \/ InsightsGroup
    \/ \E stat \in ins.projectStats : InsightsName(stat)
    \/ InsightsProject
    \/ InsightsRecent7
    \/ InsightsRecent30
    \/ InsightsProjects
    \/ InsightsReadFailed

SpecInsights == InsightsInit /\ [][NextInsights]_vars

NextSubject ==
    \/ \E d \in {400, 600} : Tick(d)
    \/ \E projectName \in ProjectNames, rnd \in RandomNums : GenerateSubject(projectName, rnd)

SpecSubject == Init /\ [][NextSubject]_vars

NextContent ==
    \E projectName \in Texts, projectDomain \in {<<"a">>, <<"\"", "&", "'">>},
       submitterName \in OptionalTexts, submitterEmail \in OptionalTexts,
       message \in Texts, rating \in EmailRatings,
       dashboardUrl \in {NullText, Text(<<"a">>)} :
        BuildContent(EmailData(projectName, projectDomain, submitterName,
                               submitterEmail, message, rating, dashboardUrl))

SpecContent == Init /\ [][NextContent]_vars

NextProjects ==
    \/ \E r \in ReqIds, b \in ProjectBodies : ProjectPOST(r, b)
    \/ \E r \in ReqIds : ProjectCreated(r)
    \/ \E r \in ReqIds : ProjectCreateRejected(r)

SpecProjects == Init /\ [][NextProjects]_vars

\* the kinds of record in the store when a project is deleted
DeletionKinds == {2, 5, 6, 7}

DeletionStores ==
    UNION { { [i \in 1..n |-> KindRecord(f[i], i)] :
                f \in {g \in [1..n -> DeletionKinds] :
                          \A i \in 1..n : \A j \in 1..n : i <= j => g[i] <= g[j]} } :
            n \in 0..MaxDeletionFeedback }

DeletionInit ==
    /\ feedbacks \in DeletionStores
    /\ projects = {Project("p1", "Alpha", TRUE), Project("p2", "Beta", TRUE)}
    /\ now = 40
    /\ RequestInit /\ DispatchInit /\ TestInit /\ InsightsIdle /\ AuxInit

NextDeletion ==
    \/ NextInsights
    \/ \E q \in {"p1", "p2"} : DeleteProject(q)

SpecDeletion == DeletionInit /\ [][NextDeletion]_vars

MigrationInit ==
    /\ feedbacks \in DeletionStores
    /\ projects \in MigrationTables
    /\ now = 40
    /\ RequestInit /\ DispatchInit /\ TestInit /\ InsightsIdle /\ AuxInit

NextMigration ==
    \/ MigrateRun
    \/ MigrateFindDefault
    \/ MigrateCreate
    \/ MigrateFindUnassigned
    \/ MigrateUpdate
    \/ MigrateCount
    \/ MigrateFailed

SpecMigration == MigrationInit /\ [][NextMigration]_vars

FeedbackListInit ==
    /\ feedbacks \in InsightStores
    /\ projects \in ProjectTables
    /\ now = 40
    /\ RequestInit /\ DispatchInit /\ TestInit /\ InsightsIdle /\ AuxInit

NextList ==
    \/ \E projectId \in ScopeParams : FeedbackGET(projectId)
    \/ FeedbackGETFound
    \/ FeedbackGETFailed

SpecList == FeedbackListInit /\ [][NextList]_vars

\* analytics while ingestion requests insert feedback
NextLive ==
    \/ NextIngest
    \/ NextInsights

SpecLive == Init /\ [][NextLive]_vars

(***************************************************************************)
(* Properties                                                              *)
(***************************************************************************)
\* a present, non-empty message
NonEmptyMessage(v) == v.t = "string" /\ v.s # ""

\* a request that was received with an object body
Received(r) == pc[r] # "idle" /\ body[r].kind = "object"

\* C1: a submission whose message is absent or the empty string is answered
\* 400 'Message is required', the store's create is never invoked for it, it
\* creates no record, and every record of the store was created by a request
\* whose create resolved
C1_EmptyMessageRejected ==
    /\ \A r \in ReqIds :
        Received(r) /\ body[r].message \in {Undefined, Str("")}
            => /\ pc[r] = "done"
               /\ resp[r] = JsonError("Message is required", 400)
               /\ createCalls[r] = 0
               /\ created[r] = 0
    /\ Len(feedbacks) = Cardinality({r \in ReqIds : created[r] # 0})

C1_Witness ==
    \E r1, r2 \in ReqIds :
        /\ pc[r1] = "done" /\ body[r1] = ObjectBody(Str("Ann"), Undefined, Str(""), Num(3))
        /\ resp[r1].status = 400
        /\ pc[r2] = "done" /\ body[r2].kind = "object" /\ body[r2].message = Undefined
        /\ feedbacks = <<>>

\* C2: when the store write of a submission succeeds the handler returns the
\* created record with status 201, the record's message is the submitted
\* message and its rating is the submitted rating when one was supplied
C2_CreatedRecordReturned ==
    \A r \in ReqIds :
        created[r] # 0
            => /\ NonEmptyMessage(body[r].message)
               /\ pc[r] = "done"
               /\ resp[r].status = 201
               /\ resp[r].error = ""
               /\ resp[r].feedback = feedbacks[created[r]]
               /\ resp[r].feedback.id = created[r]
               /\ resp[r].feedback.message = body[r].message
               /\ body[r].rating # Undefined => resp[r].feedback.rating = body[r].rating

C2_Witness ==
    \E r \in ReqIds :
        /\ created[r] # 0
        /\ body[r].message = Str("hi")
        /\ body[r].rating = Num(3)
        /\ resp[r].status = 201
        /\ resp[r].feedback.rating = Num(3)

\* C3: Resend's send is invoked only after Brevo's send has settled in
\* failure; when Brevo's send succeeds the call has returned {success: true,
\* provider: 'Brevo', messageId: Brevo's id} and Resend was not invoked; at
\* most one send is in flight
C3_FallbackOnlyAfterPrimaryFailed ==
    \A c \in Callers :
        /\ \A i \in 1..Len(attempts[c]) :
            attempts[c][i] = "Resend"
                => /\ i = 2
                   /\ attempts[c][1] = "Brevo"
                   /\ Len(settled[c]) >= 1
                   /\ settled[c][1].provider = "Brevo"
                   /\ ~settled[c][1].ok
        /\ (Len(settled[c]) >= 1 /\ settled[c][1].provider = "Brevo" /\ settled[c][1].ok)
            => /\ dpc[c] = "returned"
               /\ dresult[c] = SuccessResult("Brevo", settled[c][1].messageId)
               /\ attempts[c] = <<"Brevo">>
        /\ Cardinality(inflight[c]) <= 1
        /\ Len(settled[c]) + Cardinality(inflight[c]) = Len(attempts[c])

C3_Witness ==
    /\ dpc[TestEmail] = "returned"
    /\ dresult[TestEmail] = SuccessResult("Brevo", "m-1")
    /\ attempts[TestEmail] = <<"Brevo">>

\* C4: when Brevo's send fails and Resend's succeeds the call returns
\* {success: true, provider: 'Resend', messageId: Resend's id}; each provider
\* is attempted at most once, Brevo before Resend
C4_FallbackSucceeds ==
    \A c \in Callers :
        /\ (Len(settled[c]) = 2 /\ ~settled[c][1].ok /\ settled[c][2].ok)
            => /\ dpc[c] = "returned"
               /\ settled[c][2].provider = "Resend"
               /\ dresult[c] = SuccessResult("Resend", settled[c][2].messageId)
        /\ attempts[c] \in {<<>>, <<"Brevo">>, <<"Brevo", "Resend">>}

C4_Witness ==
    /\ dpc[TestEmail] = "returned"
    /\ attempts[TestEmail] = <<"Brevo", "Resend">>
    /\ ~settled[TestEmail][1].ok
    /\ dresult[TestEmail] = SuccessResult("Resend", "id-1")

\* C5: when both providers fail the call returns {success: false, error: e}
\* with e the message of Resend's error, whatever the two failures were
C5_LastErrorReturned ==
    \A c \in Callers :
        (dpc[c] = "returned" /\ Len(settled[c]) = 2 /\ ~settled[c][2].ok)
            => /\ settled[c][1].provider = "Brevo" /\ ~settled[c][1].ok
               /\ settled[c][2].provider = "Resend"
               /\ dresult[c] = [success |-> FALSE, error |-> settled[c][2].message]

C5_Witness ==
    /\ dpc[TestEmail] = "returned"
    /\ settled[TestEmail][1].message = "Brevo API error: 500 - oops"
    /\ settled[TestEmail][2].message = "fetch failed"
    /\ dresult[TestEmail] = [success |-> FALSE, error |-> "fetch failed"]

\* C6: sendEmailWithFallback never throws: after every failed send the loop
\* is at the next provider, and a finished call has returned an
\* EmailSendResult
C6_NeverThrows ==
    \A c \in Callers :
        /\ dpc[c] \in {"idle", "loop", "sending", "returned"}
        /\ dpc[c] \in {"loop", "sending"}
            => /\ \A i \in 1..Len(settled[c]) : ~settled[c][i].ok
               /\ didx[c] = Len(settled[c]) + 1
        /\ dpc[c] = "returned"
            => /\ "success" \in DOMAIN dresult[c]
               /\ dresult[c].success = (settled[c][Len(settled[c])].ok)
               /\ ~dresult[c].success => Len(settled[c]) = Len(Providers)

C6_Witness ==
    /\ dpc[TestEmail] = "returned"
    /\ settled[TestEmail][1].message = "Unexpected token in JSON"
    /\ settled[TestEmail][2].message =
            "RESEND_API_KEY or RESEND_TOKEN environment variable is not set"
    /\ dresult[TestEmail].success = FALSE

\* C7: after every successful persistence the ingestion handler has invoked
\* the dispatcher exactly once for the record, with data of the record
C7_DispatcherInvokedOnce ==
    \A r \in ReqIds :
        (pc[r] = "done" /\ created[r] # 0)
            => /\ invoked[r] = 1
               /\ ddata[r].message = resp[r].feedback.message
               /\ ddata[r].rating = resp[r].feedback.rating

\* C8: the response of an ingestion request is determined by the submitted
\* body and the outcome of the store write alone, whatever the providers do,
\* and a created record is always answered 201
C8_ResponseIndependentOfNotification ==
    \A r \in ReqIds :
        /\ pc[r] = "done"
            => resp[r] = IF Falsy(body[r].message)
                         THEN JsonError("Message is required", 400)
                         ELSE IF created[r] # 0
                         THEN JsonFeedback(feedbacks[created[r]], 201)
                         ELSE JsonError("Failed to save feedback", 500)
        /\ created[r] # 0 => pc[r] = "done" /\ resp[r].status = 201

C8_Witness ==
    \E r1, r2 \in ReqIds :
        /\ r1 # r2
        /\ body[r1] = body[r2]
        /\ resp[r1].status = 201
        /\ resp[r2] = JsonFeedback(FeedbackCreate(<<resp[r1].feedback>>, CreateData(body[r1])), 201)
        /\ dresult[TestEmail] = [success |-> FALSE, error |-> "fetch failed"]

\* C9: no provider send is invoked for an ingestion request before its store
\* write has completed successfully, and the dispatcher is not invoked for a
\* request rejected by validation or whose write failed
C9_NoSendBeforeWrite ==
    \A r \in ReqIds :
        /\ attempts[r] # <<>> \/ inflight[r] # {} => created[r] # 0
        /\ (pc[r] = "done" /\ resp[r].status # 201) => invoked[r] = 0 /\ dpc[r] = "idle"
        /\ pc[r] = "threw" => invoked[r] = 0

C9_Witness ==
    \E r1, r2 \in ReqIds :
        /\ resp[r1].status = 400
        /\ resp[r2].status = 500
        /\ attempts[r1] = <<>> /\ attempts[r2] = <<>>
        /\ inflight[TestEmail] # {}

\* C10: every persisted Feedback record has a present, non-empty message and
\* a rating that is absent or an integer in 1..5
C10_StoredRecordsWellFormed ==
    \A i \in 1..Len(feedbacks) :
        /\ NonEmptyMessage(feedbacks[i].message)
        /\ \/ feedbacks[i].rating = Undefined
           \/ feedbacks[i].rating.t = "number" /\ feedbacks[i].rating.n \in 1..5

\* C11: every ingestion request ends with the created record (201), a
\* validation failure (400) or a persistence failure (500); none ends in an
\* unhandled exception
C11_NoUnhandledException ==
    \A r \in ReqIds :
        /\ pc[r] # "threw"
        /\ pc[r] = "done" => resp[r].status \in {201, 400, 500}

\* C12: when the store's create fails the handler answers 500 'Failed to
\* save feedback', which does not carry the storage error, no record is
\* added, and create was called once for the request
C12_CreateFailureGeneric ==
    /\ \A r \in ReqIds :
        /\ createCalls[r] <= 1
        /\ storeError[r] # ""
            => /\ pc[r] = "done"
               /\ resp[r] = JsonError("Failed to save feedback", 500)
               /\ resp[r].error # storeError[r]
               /\ created[r] = 0
               /\ createCalls[r] = 1
    /\ \A i \in 1..Len(feedbacks) : \E r \in ReqIds : created[r] = i /\ storeError[r] = ""

C12_Witness ==
    \E r1, r2 \in ReqIds :
        /\ storeError[r1] = "Can't reach database server"
        /\ resp[r1].status = 500
        /\ created[r2] = 1
        /\ Len(feedbacks) = 1

\* C13: a returned EmailSendResult is either success = true with provider
\* and a non-empty messageId and no error, or success = false with error
\* and neither provider nor messageId
C13_ResultShape ==
    \A c \in Callers :
        dpc[c] = "returned"
            => \/ /\ DOMAIN dresult[c] = {"success", "provider", "messageId"}
                  /\ dresult[c].success
                  /\ dresult[c].provider \in {"Brevo", "Resend"}
                  /\ dresult[c].messageId # ""
               \/ /\ DOMAIN dresult[c] = {"success", "error"}
                  /\ ~dresult[c].success

C13_Witness ==
    /\ dpc[TestEmail] = "returned"
    /\ dresult[TestEmail] = SuccessResult("Resend", "unknown")
    /\ attempts[TestEmail] = <<"Brevo", "Resend">>

(***************************************************************************)
(* Analytics                                                               *)
(***************************************************************************)
\* the analytics request was answered with the insights
InsightsAnswered == ins.pc = "done" /\ iresp.status = 200

\* the records the request is about: all, or those of the project it names
Scope ==
    {i \in 1..Len(feedbacks) : ins.projectId = "" \/ feedbacks[i].projectId = ins.projectId}

\* the in-scope records that have a rating
RatedScope == {i \in Scope : feedbacks[i].rating.t = "number"}

\* C14: ratingDistribution has the five entries for the ratings 1, 2, 3, 4, 5
\* in that order, and the count of each is the number of in-scope records with
\* exactly that rating, for every store content and scope
C14_RatingDistribution ==
    InsightsAnswered =>
        iresp.insights.ratingDistribution =
            [k \in 1..5 |->
                [rating |-> k,
                 count |-> Cardinality({i \in Scope : feedbacks[i].rating = Num(k)})]]

\* one project's only rated records are rated 4, another project has ratings too
C14_Witness ==
    /\ InsightsAnswered
    /\ ins.projectId = "p1"
    /\ \E i \in Scope : feedbacks[i].rating = Num(4)
    /\ \E i \in 1..Len(feedbacks) : i \notin Scope /\ feedbacks[i].rating = Num(2)
    /\ \A k \in {1, 2, 3, 5} : iresp.insights.ratingDistribution[k].count = 0
    /\ iresp.insights.ratingDistribution[4].count >= 1

\* C15: averageRating (in hundredths) is the hundredth nearest to the mean
\* rating of the rated in-scope records, 0 when there is none, and
\* ratedFeedbackCount is the number of rated in-scope records
C15_AverageRating ==
    InsightsAnswered =>
        LET n == Cardinality(RatedScope)
            sum == SumRatings(feedbacks, RatedScope)
            a == iresp.insights.averageRating
            d == a * n - 100 * sum
        IN /\ iresp.insights.ratedFeedbackCount = n
           /\ n = 0 => a = 0
           /\ n > 0 => (2 * d <= n /\ 2 * d >= -n)

\* the ratings 2, 2, 4 have the mean 2.666..., reported as 2.67
C15_Witness ==
    /\ InsightsAnswered
    /\ iresp.insights.ratedFeedbackCount = 3
    /\ SumRatings(feedbacks, RatedScope) = 8
    /\ iresp.insights.averageRating = 267

\* C16: without a project filter feedbackByProject has one entry for each
\* distinct project reference of the feedback, the absent reference being
\* the entry "No Project", each with the number of records of that reference
C16_FeedbackByProject ==
    (InsightsAnswered /\ ins.projectId = "") =>
        LET refs == {feedbacks[i].projectId : i \in 1..Len(feedbacks)}
            entries == iresp.insights.feedbackByProject
        IN /\ {e.projectId : e \in entries} = refs
           /\ Cardinality(entries) = Cardinality(refs)
           /\ \A e \in entries :
                /\ e.count = Cardinality({i \in 1..Len(feedbacks) :
                                            feedbacks[i].projectId = e.projectId})
                /\ e.projectId = NoProject => e.projectName = "No Project"

\* 2 records on a project and 1 without a project give the two groups
C16_Witness ==
    /\ InsightsAnswered
    /\ ins.projectId = ""
    /\ Len(feedbacks) = 3
    /\ iresp.insights.feedbackByProject =
          {ProjectEntry("p1", "Alpha", 2), ProjectEntry(NoProject, "No Project", 1)}

\* C17: with a project filter feedbackByProject has exactly one entry, with
\* that project id and the totalFeedback of the response as its count, also
\* for a project without feedback or one that is not in the store
C17_SingleProjectEntry ==
    (InsightsAnswered /\ ins.projectId # "") =>
        /\ Cardinality(iresp.insights.feedbackByProject) = 1
        /\ \A e \in iresp.insights.feedbackByProject :
              /\ e.projectId = ins.projectId
              /\ e.count = iresp.insights.totalFeedback

\* the project named is not in the store and has no feedback, another has
C17_Witness ==
    /\ InsightsAnswered
    /\ ins.projectId = "p2"
    /\ \A p \in projects : p.id # "p2"
    /\ Scope = {}
    /\ Len(feedbacks) > 0
    /\ iresp.insights.feedbackByProject = {ProjectEntry("p2", "Unknown Project", 0)}

\* C18: totalProjects is the number of active projects without a project
\* filter and 1 with one, whatever the active flag of that project
C18_TotalProjects ==
    InsightsAnswered =>
        iresp.insights.totalProjects =
            IF ins.projectId = "" THEN Cardinality({p \in projects : p.isActive}) ELSE 1

\* no filter, one project of two is active
C18_Witness ==
    /\ InsightsAnswered
    /\ ins.projectId = ""
    /\ Cardinality(projects) = 2
    /\ \E p \in projects : ~p.isActive
    /\ iresp.insights.totalProjects = 1

\* C19: recent7Days and recent30Days are the numbers of in-scope records
\* created at or after now - 7 days and now - 30 days, the lower bound included
C19_RecentWindows ==
    InsightsAnswered =>
        /\ iresp.insights.recent7Days =
              Cardinality({i \in Scope : feedbacks[i].createdAt >= now - 7})
        /\ iresp.insights.recent30Days =
              Cardinality({i \in Scope : feedbacks[i].createdAt >= now - 30})

\* records created exactly 7 and exactly 30 days ago are both counted
C19_Witness ==
    /\ InsightsAnswered
    /\ \E i \in Scope : feedbacks[i].createdAt = now - 7
    /\ \E i \in Scope : feedbacks[i].createdAt = now - 30
    /\ iresp.insights.recent7Days = 1
    /\ iresp.insights.recent30Days = 2

\* C20: when a store read of the computation fails the response is the
\* generic failure alone, with none of the aggregates computed before
C20_NoPartialInsights ==
    /\ ins.failed =>
          iresp = [status |-> 500, error |-> "Failed to fetch business insights",
                   insights |-> NoInsights]
    /\ iresp.status = 500 => iresp.insights = NoInsights

\* the last read failed, after the other aggregates had been computed
C20_Witness ==
    /\ ins.failed
    /\ iresp.status = 500
    /\ ins.totalFeedback > 0
    /\ Len(ins.ratingDistribution) = 5
    /\ ins.recent30Days > 0
    /\ ins.feedbackByProject # {}

(***************************************************************************)
(* Email content                                                           *)
(***************************************************************************)
\* C21: two calls of generateFeedbackEmailSubject with the same project name
\* return different subject lines, whatever the time between them
C21_SubjectsDistinct ==
    \A i \in 1..Len(subjects) : \A j \in 1..Len(subjects) :
        (i < j /\ subjects[i].projectName = subjects[j].projectName)
            => subjects[i].subject # subjects[j].subject

\* the characters escapeHtml is there for
SpecialChars == {"&", "<", ">", "\"", "'"}

\* the entity a special character is to appear as
Entity(c) ==
    CASE c = "&" -> "&amp;" [] c = "<" -> "&lt;" [] c = ">" -> "&gt;"
      [] c = "\"" -> "&quot;" [] c = "'" -> "&#039;" [] OTHER -> c

\* sub occurs in pieces as a run of consecutive pieces
Occurs(sub, pieces) ==
    \E k \in 0..(Len(pieces) - Len(sub)) : \A i \in 1..Len(sub) : pieces[k + i] = sub[i]

\* C22: in the HTML body no character & < > " ' of a user-supplied field
\* appears raw: each field appears with these characters as entities, so
\* <s> in a message is rendered &lt;s&gt;
C22_HtmlEscaped ==
    ehtml.built =>
        /\ \A i \in 1..Len(ehtml.pieces) : ehtml.pieces[i] \notin SpecialChars
        /\ \A field \in {edata.projectName, edata.projectDomain, edata.message,
                         edata.submitterName.chars, edata.submitterEmail.chars} :
              Occurs([i \in 1..Len(field) |-> Entity(field[i])], ehtml.pieces)

\* a tag in the message and quotes in every other field
C22_Witness ==
    /\ ehtml.built
    /\ edata.message = <<"<", "s", ">">>
    /\ edata.projectDomain = <<"\"", "&", "'">>
    /\ edata.submitterEmail = Text(<<"\"", "&", "'">>)
    /\ Occurs(<<"&lt;", "s", "&gt;">>, ehtml.pieces)
    /\ Occurs(<<"<a href=\"mailto:", "&quot;", "&amp;", "&#039;",
                 "\" style=\"color: #667eea;\">Reply</a>">>,
              ehtml.pieces)

\* C23: a rating N of 1..5 is rendered as N filled and 5-N empty stars with
\* the caption 'N out of 5 stars'; without a rating the body says
\* 'No rating provided'
C23_RatingRendered ==
    ehtml.built =>
        IF edata.rating.t = "number" /\ edata.rating.n \in 1..5
        THEN Occurs([i \in 1..5 |-> IF i <= edata.rating.n THEN FilledStar ELSE EmptyStar]
                        \o <<"</span><span>">> \o DigitsOf(edata.rating.n)
                        \o <<" out of 5 stars">>,
                    ehtml.pieces)
        ELSE edata.rating = JSNull =>
                (\/ Occurs(<<"No rating provided">>, ehtml.pieces)
                 \/ Occurs(<<"No rating provided">>, etext.pieces))

(***************************************************************************)
(* Projects                                                                *)
(***************************************************************************)
\* C24: no two stored projects have the same API key; a creation whose key
\* is taken is answered with the generic 500 and adds no project; no
\* creation changes a stored project
C24_ApiKeysUnique ==
    /\ [](/\ \A p \in projects : \A q \in projects : p.apiKey = q.apiKey => p = q
          /\ Cardinality(projects) = Cardinality({r \in ReqIds : presp[r].status = 201})
          /\ \A r \in ReqIds :
                /\ preq[r].taken => presp[r] = ProjectError("Failed to create project", 500)
                /\ presp[r].status = 201 =>
                      /\ presp[r].project \in projects
                      /\ presp[r].project.apiKey = preq[r].apiKey)
    /\ [][/\ \A p \in projects : p \in projects'
          /\ \A r \in ReqIds : (preq'[r].taken /\ ~preq[r].taken) => projects' = projects]_vars

\* one creation took a key, another drew the same key and was refused
C24_Witness ==
    /\ Cardinality(projects) = 1
    /\ presp[1].status = 201
    /\ preq[2].pc = "done" /\ preq[2].taken
    /\ preq[2].apiKey = preq[1].apiKey
    /\ presp[2].status = 500

(***************************************************************************)
(* Duplicate delivery                                                      *)
(***************************************************************************)
\* C25: in every dispatch call at most one provider accepts the message,
\* whatever the providers answer, a 2xx answer with an unreadable body included
C25_AtMostOneProviderAccepts ==
    \A c \in Callers : Cardinality(accepted[c]) <= 1

(***************************************************************************)
(* Analytics while the store changes                                       *)
(***************************************************************************)
\* the number of feedback records that refer to project q
Referring(q) == Cardinality({i \in 1..Len(feedbacks) : feedbacks[i].projectId = q})

C27_MigrationAssignsOnce ==
    mig.pc = "done" =>
        /\ Len(feedbacks) = Len(mig.startFeedbacks)
        /\ \A i \in 1..Len(feedbacks) :
              /\ feedbacks[i].projectId # NoProject
              /\ IF mig.startFeedbacks[i].projectId = NoProject
                 THEN /\ \E p \in projects :
                            p.name = "Default Project" /\ p.id = feedbacks[i].projectId
                      /\ feedbacks[i] =
                            [mig.startFeedbacks[i] EXCEPT !.projectId = feedbacks[i].projectId]
                 ELSE feedbacks[i] = mig.startFeedbacks[i]
        /\ mig.completed > 1 =>
              /\ projects = mig.startProjects
              /\ feedbacks = mig.startFeedbacks
              /\ Cardinality({p \in projects : p.name = "Default Project"}) = 1

\* the second run ended well after the first had created the default
\* project and assigned a record to it
C27_Witness ==
    /\ mig.pc = "done"
    /\ mig.completed = 2
    /\ \E i \in 1..Len(feedbacks) : feedbacks[i].projectId = "p3"
    /\ \E i \in 1..Len(feedbacks) : feedbacks[i].projectId = "p1"
    /\ DefaultProjectData("p3", "a1a1") \in projects

(***************************************************************************)
(* Feedback list                                                           *)
(***************************************************************************)
\* C28: a list request with a project id returns only the records of that
\* project, one without returns all records; both newest first
C28_ListFiltered ==
    lresp.status = 200 =>
        LET list == lresp.feedbacks
        IN /\ \A i \in 1..Len(list) : \A j \in 1..Len(list) :
                  i < j => list[i].createdAt >= list[j].createdAt
           /\ {list[i].id : i \in 1..Len(list)} =
                 {feedbacks[i].id : i \in {k \in 1..Len(feedbacks) :
                                            lreq.projectId = "" \/
                                            feedbacks[k].projectId = lreq.projectId}}

(***************************************************************************)
(* Analytics while feedback is inserted                                    *)
(***************************************************************************)
\* no record was inserted since the analytics request arrived
NoWriteInterleaved == Len(feedbacks) = ins.storeSize

\* C29: while requests only insert feedback, recent7Days <= recent30Days in
\* every response; with no insert during the computation also
\* recent30Days <= totalFeedback and ratedFeedbackCount <= totalFeedback
C29_WindowsOrdered ==
    InsightsAnswered =>
        /\ iresp.insights.recent7Days <= iresp.insights.recent30Days
        /\ NoWriteInterleaved =>
              /\ iresp.insights.recent30Days <= iresp.insights.totalFeedback
              /\ iresp.insights.ratedFeedbackCount <= iresp.insights.totalFeedback

\* a record was inserted between the read of recent7Days and that of
\* recent30Days
C29_Witness ==
    /\ InsightsAnswered
    /\ ~NoWriteInterleaved
    /\ iresp.insights.totalFeedback = 0
    /\ iresp.insights.recent7Days = 0
    /\ iresp.insights.recent30Days = 1

\* C30: for a feedback set that came in through POST /api/feedback and a
\* computation with no insert in between, the five ratingDistribution counts
\* add up to ratedFeedbackCount
C30_DistributionSumsToRated ==
    (InsightsAnswered /\ NoWriteInterleaved) =>
        LET dist == iresp.insights.ratingDistribution
        IN dist[1].count + dist[2].count + dist[3].count + dist[4].count + dist[5].count
              = iresp.insights.ratedFeedbackCount

====
